---------------------------- MODULE Spec2Model ----------------------------
(***************************************************************************)
(* Training-lifecycle orchestration of the model-training microservice:    *)
(*   - EarlyStopping      (model_service/utils/early_stopping.py)          *)
(*   - ModelManager       (model_service/utils/model_manager.py)           *)
(*   - TrainingManager    (model_service/utils/train_manager.py)           *)
(*   - ModelEnsemble      (model_service/utils/model_ensemble.py)          *)
(*   - ModelCompressor    (model_service/utils/model_compressor.py)        *)
(*   - ModelQuantizer     (model_service/utils/quantizer.py)               *)
(*   - WarmupLRScheduler  (model_service/utils/lr_scheduler.py)            *)
(*                                                                         *)
(* The specifications share the variables below:                           *)
(*   SpecES        one EarlyStopping instance driven call by call,         *)
(*   SpecMM        one ModelManager driven by save_model / delete_version, *)
(*   Spec          one TrainingManager, training calls one at a time,      *)
(*   SpecAPI       Spec with the cached status route of the API,           *)
(*   SpecCC        one TrainingManager, training calls overlapping,        *)
(*   SpecRace      as SpecCC, the overlapping calls for the same id,       *)
(*   SpecEnsemble  one ModelEnsemble driven by add_model,                  *)
(*   SpecCompress  compress and quantize calls on the caller's model,      *)
(*   SpecLR        one WarmupLRScheduler stepped epoch by epoch.           *)
(*                                                                         *)
(* Scores and losses are floats in the code; they are drawn here from a    *)
(* small integer range, on which <, > and +/- min_delta are exact.         *)
(***************************************************************************)
EXTENDS Integers, Sequences, FiniteSets, TLC

(***************************************************************************)
(* Bounds of the model.                                                    *)
(***************************************************************************)
MaxCalls == 4
MaxScore == 2
MaxPatience == 2
MaxDelta == 1
MaxVersions == 2
MaxSaves == 3
MaxClock == 5
TicksPerSecond == 2
NumOwners == 1
NumUsers == 2
MaxEpochs == 2
MaxJobs == 2
MaxLoss == 1
MaxHistory == 2
MaxModels == 4
MaxWeight == 2
MaxCompressions == 2
MaxWarmup == 3
MaxTotalEpochs == 5
MaxBaseLr == 2

\* Python's None, for best_score, baseline and the unset best_state
\* attribute; it lies outside the range of scores and of model states.
None == -1

Scores == 0..MaxScore
EarlyStoppingMode == {"min", "max"}
\* the user ids of the service, and those the sequential driver trains for
UserIds == 1..NumUsers
Owners == 1..NumOwners
ModelTypes == {"student", "teacher"}
\* one directory {model_dir}/{model_type}_{user_id} per namespace
Namespaces == ModelTypes \X UserIds
\* SpecMM drives the two namespaces of one user; namespaces do not interact
StoreNamespaces == ModelTypes \X {1}

VARIABLES
    es_cfg,      \* EarlyStopping.__init__ arguments: patience, min_delta, mode, baseline, restore_best
    es,          \* EarlyStopping instance state: counter, best_score, best_epoch, early_stop, history, best_state
    es_ret,      \* what the most recent EarlyStopping.__call__ returned ("none" before the first call)
    es_first,    \* the epoch number the driver passes on the first call
    es_arg       \* the model_state the driver passed on the most recent call (None before)

es_vars == <<es_cfg, es, es_ret, es_first, es_arg>>

VARIABLES
    max_versions, \* ModelManager.max_versions
    now,          \* the wall clock read by datetime.now(), in ticks of 1/TicksPerSecond s
    dirs,         \* the version directories under each namespace directory
    mm_log        \* per namespace, what the store's own save_model / delete_version calls did

mm_vars == <<max_versions, now, dirs, mm_log>>

VARIABLES
    max_epochs,      \* TrainingManager.max_epochs
    eval_interval,   \* config['eval_interval']
    training_status, \* TrainingManager.training_status, keyed by user id
    jobs,            \* the invocations of train_student_model / train_teacher_model
    cache            \* the cache backends of the manager and of the API routes, and the route's last reply

tm_vars == <<max_epochs, eval_interval, training_status, jobs, cache>>

\* ModelEnsemble: the length of self.models, self.weights (<< >> for None,
\* else <<the list>>), whether the last add_model call raised, and the
\* weights the caller asked for, one per stored model
VARIABLES ensemble

VARIABLES
    nn,               \* the caller's nn.Module objects "model" and "teacher": parameters, structure, train/eval mode
    compressed_files, \* the files under compressed_dir/<model_type>_<user_id>
    compression       \* the number of compress / quantize calls made and the outcome of the last

cmp_vars == <<nn, compressed_files, compression>>

\* WarmupLRScheduler: its arguments, last_epoch and the rate the optimizer
\* was given by the most recent step()
VARIABLES sched

util_vars == <<ensemble, cmp_vars, sched>>

vars == <<es_vars, mm_vars, tm_vars, util_vars>>

(***************************************************************************)
(* EarlyStopping                                                           *)
(***************************************************************************)

\* EarlyStopping.__init__: the state part.  best_state is not assigned by
\* the constructor, the attribute does not exist until _update_best runs.
EarlyStoppingInit ==
    [counter |-> 0, best_score |-> None, best_epoch |-> 0,
     early_stop |-> FALSE, history |-> << >>, best_state |-> None]

\* EarlyStopping.__init__: the configuration part.
EarlyStoppingConfigs ==
    [patience : 0..MaxPatience, min_delta : 0..MaxDelta,
     mode : EarlyStoppingMode, baseline : {None} \cup Scores,
     restore_best : BOOLEAN]

_is_improved_loose(c, e, score) ==
    IF c.mode = "min"
    THEN score < e.best_score
    ELSE score > e.best_score

_is_improved_swapped(c, e, score) ==
    IF c.mode = "max"
    THEN score < (e.best_score - c.min_delta)
    ELSE score > (e.best_score + c.min_delta)

_is_improved(c, e, score) ==
    IF c.mode = "min"
    THEN score < (e.best_score - c.min_delta)
    ELSE score > (e.best_score + c.min_delta)

_update_best_keep_epoch(c, e, score, epoch, model_state) ==
    [e EXCEPT !.best_score = score,
              !.best_state = IF c.restore_best THEN model_state ELSE @]

_update_best(c, e, score, epoch, model_state) ==
    [e EXCEPT !.best_score = score,
              !.best_epoch = epoch,
              !.best_state = IF c.restore_best THEN model_state ELSE @]

\* The baseline check at the top of __call__.
BelowBaseline(c, score) ==
    /\ c.baseline # None
    /\ \/ c.mode = "min" /\ score > c.baseline
       \/ c.mode = "max" /\ score < c.baseline

\* EarlyStopping.__call__: the new instance state and the returned flag.
\* The metrics argument is only stored in the history entry and is left out.
EarlyStoppingCall(c, e, epoch, score, model_state) ==
    LET h == [e EXCEPT !.history = Append(@, [epoch |-> epoch, score |-> score])]
    IN  IF BelowBaseline(c, score)
        THEN [es |-> h, ret |-> FALSE]
        ELSE IF h.best_score = None
        THEN [es |-> _update_best(c, h, score, epoch, model_state), ret |-> FALSE]
        ELSE LET u == IF _is_improved(c, h, score)
                      THEN [_update_best(c, h, score, epoch, model_state)
                                EXCEPT !.counter = 0]
                      ELSE [h EXCEPT !.counter = @ + 1]
             IN  IF u.counter >= c.patience
                 THEN [es |-> [u EXCEPT !.early_stop = TRUE], ret |-> TRUE]
                 ELSE [es |-> u, ret |-> FALSE]

\* EarlyStopping.get_best_state
get_best_state(c, e) == IF c.restore_best THEN e.best_state ELSE None

\* EarlyStopping.get_training_summary
get_training_summary(e) ==
    [best_score |-> e.best_score, best_epoch |-> e.best_epoch,
     total_epochs |-> Len(e.history), stopped_early |-> e.early_stop,
     history |-> e.history]

\* EarlyStopping.should_stop_on_baseline
should_stop_on_baseline(c, score) ==
    IF c.baseline = None THEN FALSE
    ELSE IF c.mode = "min" THEN score > c.baseline
    ELSE score < c.baseline

(***************************************************************************)
(* ModelManager                                                            *)
(***************************************************************************)

\* datetime.now().strftime('%Y%m%d_%H%M%S'): the clock truncated to whole
\* seconds.  The strings compare lexically as the seconds compare.
version_id(t) == t \div TicksPerSecond

Versions == 0..version_id(MaxClock)

SetMax(S) == CHOOSE m \in S : \A x \in S : x <= m

\* sorted(..., key=lambda x: x.name, reverse=True)
RECURSIVE SortedDesc(_)
SortedDesc(S) ==
    IF S = {} THEN << >>
    ELSE LET m == SetMax(S) IN <<m>> \o SortedDesc(S \ {m})

ExcessVersions_off_by_one(D, k) ==
    LET versions == SortedDesc(D)
    IN  IF Len(versions) > k + 1 THEN SubSeq(versions, k + 2, Len(versions)) ELSE << >>

\* versions[self.max_versions:], the directories the cleanup is to delete
ExcessVersions(D, k) ==
    LET versions == SortedDesc(D)
    IN  IF Len(versions) > k THEN SubSeq(versions, k + 1, Len(versions)) ELSE << >>

\* ModelManager._cleanup_old_versions on the directory set D.  The loop
\* deletes the excess versions in order; rmtree raises on the one after the
\* first `done` deletions (done = Len(excess): none raises), the loop is
\* left and the error is logged.
_cleanup_old_versions(D, k, done) ==
    LET excess == ExcessVersions(D, k)
    IN  D \ {excess[i] : i \in 1..done}

MMLogInit ==
    [saves   |-> 0,      \* save_model calls that returned a version_id
     issued  |-> {},     \* the version_ids they returned
     raised  |-> FALSE,  \* a save_model call raised
     deleted |-> FALSE,  \* delete_version was called
     clean   |-> TRUE,   \* the most recent save_model ran its cleanup without error
     complete |-> {}]    \* the version directories that hold both model.pth and info.json

\* ModelManager.__init__ on an empty model_dir
ModelManagerInit ==
    /\ max_versions \in 1..MaxVersions
    /\ now = 0
    /\ dirs = [ns \in Namespaces |-> {}]
    /\ mm_log = [ns \in Namespaces |-> MMLogInit]

TotalSaves == LET RECURSIVE Sum(_)
                  Sum(S) == IF S = {} THEN 0
                            ELSE LET x == CHOOSE y \in S : TRUE
                                 IN  mm_log[x].saves + Sum(S \ {x})
              IN  Sum(Namespaces)

\* time passes
Tick ==
    /\ now < MaxClock
    /\ now' = now + 1
    /\ UNCHANGED <<max_versions, dirs, mm_log, es_vars, tm_vars, util_vars>>

\* save_model returns version_id: directory and both files written, then
\* _cleanup_old_versions, whose errors are logged and swallowed (`done` of
\* the excess directories are deleted before rmtree raises).
save_model_returns(ns, done) ==
    LET v == version_id(now)
        D == dirs[ns] \cup {v}
    IN  /\ done \in 0..Len(ExcessVersions(D, max_versions))
        /\ dirs' = [dirs EXCEPT ![ns] = _cleanup_old_versions(D, max_versions, done)]

\* save_model raises: mkdir, torch.save or json.dump failed; the directory
\* may already have been created, the cleanup is not reached.
save_model_raises(ns, created) ==
    dirs' = [dirs EXCEPT ![ns] = IF created THEN @ \cup {version_id(now)} ELSE @]

SaveModelReturns(ns) ==
    /\ TotalSaves < MaxSaves
    /\ \E done \in 0..MaxSaves :
          /\ save_model_returns(ns, done)
          /\ mm_log' = [mm_log EXCEPT
                ![ns].saves = @ + 1,
                ![ns].issued = @ \cup {version_id(now)},
                ![ns].complete = (@ \cup {version_id(now)}) \cap dirs'[ns],
                ![ns].clean = (done = Len(ExcessVersions(dirs[ns] \cup {version_id(now)},
                                                         max_versions)))]
    /\ UNCHANGED <<max_versions, now, es_vars, tm_vars, util_vars>>

SaveModelRaises(ns) ==
    /\ TotalSaves < MaxSaves
    /\ ~mm_log[ns].raised
    /\ \E created \in BOOLEAN : save_model_raises(ns, created)
    /\ mm_log' = [mm_log EXCEPT ![ns].raised = TRUE, ![ns].clean = FALSE]
    /\ UNCHANGED <<max_versions, now, es_vars, tm_vars, util_vars>>

\* ModelManager.delete_version; rmtree may raise, which returns False.
DeleteVersion(ns, v) ==
    /\ \E ok \in BOOLEAN :
          dirs' = [dirs EXCEPT ![ns] = IF ok THEN @ \ {v} ELSE @]
    /\ mm_log' = [mm_log EXCEPT ![ns].deleted = TRUE,
                                ![ns].complete = @ \cap dirs'[ns]]
    /\ UNCHANGED <<max_versions, now, es_vars, tm_vars, util_vars>>

_get_version_path_oldest(D, version) ==
    IF D = {} THEN None
    ELSE IF version # None THEN (IF version \in D THEN version ELSE None)
    ELSE CHOOSE m \in D : \A x \in D : m <= x

\* ModelManager._get_version_path on the directory set D of a namespace:
\* the named version if its directory exists, the lexically greatest
\* directory for version_id=None, None if there is none.
_get_version_path(D, version) ==
    IF D = {} THEN None
    ELSE IF version # None THEN (IF version \in D THEN version ELSE None)
    ELSE SortedDesc(D)[1]

\* ModelManager.load_model: the version whose model.pth and info.json it
\* reads, "raises" when no version is found or a file is missing.
load_model(ns, version) ==
    LET version_path == _get_version_path(dirs[ns], version)
    IN  IF version_path = None THEN "raises"
        ELSE IF version_path \notin mm_log[ns].complete THEN "raises"
        ELSE ToString(version_path)

\* ModelManager.get_model_info: the version whose info.json it returns,
\* "None" when no version is found or open() raises.
get_model_info(ns, version) ==
    LET version_path == _get_version_path(dirs[ns], version)
    IN  IF version_path = None THEN "None"
        ELSE IF version_path \notin mm_log[ns].complete THEN "None"
        ELSE ToString(version_path)

(***************************************************************************)
(* CacheManager                                                            *)
(***************************************************************************)

\* the prefixes of CACHE_KEYS that the manager and the status route use
CACHE_KEYS == [training_status |-> "train_status", model_info |-> "model_info"]

\* "|".join(key_parts)
RECURSIVE Join(_)
Join(parts) ==
    IF Len(parts) = 1 THEN parts[1]
    ELSE parts[1] \o "|" \o Join(Tail(parts))

\* CacheManager._generate_key: the prefix, str(arg) for the positional
\* arguments, "k:v" for the keyword arguments in key order.  args holds the
\* str() of the positional arguments, kwargs the sorted <<k, str(v)>> pairs.
\* The md5 digest of the joined string is taken as the string itself
\* (different strings, different digests).
_generate_key(prefix, args, kwargs) ==
    Join(<<prefix>> \o args
         \o [i \in 1..Len(kwargs) |-> kwargs[i][1] \o ":" \o kwargs[i][2]])

\* CacheBackend.get / set / delete on a store, a set of [key, value] entries
\* with one entry per key.  Present(store, key) is `get(key) is not None`.
Present(store, key) == \E e \in store : e.key = key

BackendGet(store, key) == (CHOOSE e \in store : e.key = key).value

BackendSet(store, key, value) ==
    {e \in store : e.key # key} \cup {[key |-> key, value |-> value]}

BackendDelete(store, key) == {e \in store : e.key # key}

\* The two CacheManager instances of the service: TrainingManager.cache_manager
\* (train_manager.py:77) and the module-level cache_manager of the routes
\* (routes.py:54).  With cache_backend 'memory' (the default) each has a
\* MemoryCache of its own; with 'redis' both talk to the same Redis database.
CacheBackends == {"memory", "redis"}
CacheOwners == {"manager", "routes"}

\* the reply of the status route before any request
NoReply == [user_id |-> 0, hit |-> FALSE, data |-> << >>, code |-> 0, executions |-> 0]

\* both CacheManagers constructed, nothing cached
CacheInit(backend) ==
    [backend |-> backend, manager |-> {}, routes |-> {}, reply |-> NoReply]

\* what the backend of CacheManager `who` holds
StoreOf(c, who) == IF c.backend = "redis" THEN c.routes ELSE c[who]

\* the cache after CacheManager `who` has replaced its backend's content
WithStore(c, who, store) ==
    IF c.backend = "redis" \/ who = "routes"
    THEN [c EXCEPT !.routes = store]
    ELSE [c EXCEPT !.manager = store]

\* CacheManager.invalidate(prefix, *args, **kwargs) by CacheManager `who`
invalidate(c, who, prefix, args, kwargs) ==
    WithStore(c, who, BackendDelete(StoreOf(c, who), _generate_key(prefix, args, kwargs)))

(***************************************************************************)
(* ModelEnsemble                                                           *)
(***************************************************************************)

\* Weights are floats in the code; here they are fractions <<n, d>> with
\* d > 0 in lowest terms, on which sum and quotient are exact.
RECURSIVE GCD(_, _)
GCD(a, b) == IF b = 0 THEN a ELSE GCD(b, a % b)

Abs(n) == IF n < 0 THEN -n ELSE n

\* the fraction n/d, d # 0, in lowest terms
Frac(n, d) ==
    LET g == GCD(Abs(n), Abs(d))
        sgn == IF d < 0 THEN -1 ELSE 1
    IN  <<sgn * (n \div g), sgn * (d \div g)>>

FracAdd(a, b) == Frac(a[1] * b[2] + b[1] * a[2], a[2] * b[2])

\* a / b for b # 0
FracDiv(a, b) == Frac(a[1] * b[2], a[2] * b[1])

\* sum(self.weights)
RECURSIVE sum(_)
sum(ws) == IF ws = << >> THEN Frac(0, 1) ELSE FracAdd(Head(ws), sum(Tail(ws)))

\* ModelEnsemble.__init__ (lines 29-30)
ModelEnsembleInit == [models |-> 0, weights |-> << >>, raised |-> FALSE, requested |-> << >>]

\* [w/total for w in self.weights]
normalized(ws, total) == [i \in 1..Len(ws) |-> FracDiv(ws[i], total)]

\* ModelEnsemble.add_model(model, weight).  model.eval() or model.to() may
\* raise before anything is stored (`bad`); w/total raises
\* ZeroDivisionError when the weights total zero, after the append.
add_model(weight, bad) ==
    /\ ensemble.models < MaxModels
    /\ IF bad
       THEN ensemble' = [ensemble EXCEPT !.raised = TRUE]
       ELSE IF ensemble.weights = << >>
       THEN ensemble' = [models |-> ensemble.models + 1,
                         weights |-> << <<Frac(1, 1)>> >>, raised |-> FALSE,
                         requested |-> Append(ensemble.requested, weight)]
       ELSE LET appended == Append(ensemble.weights[1], Frac(weight, 1))
                total == sum(appended)
            IN  IF total[1] = 0
                THEN ensemble' = [models |-> ensemble.models + 1,
                                  weights |-> <<appended>>, raised |-> TRUE,
                                  requested |-> Append(ensemble.requested, weight)]
                ELSE ensemble' = [models |-> ensemble.models + 1,
                                  weights |-> <<normalized(appended, total)>>,
                                  raised |-> FALSE,
                                  requested |-> Append(ensemble.requested, weight)]
    /\ UNCHANGED <<es_vars, mm_vars, tm_vars, cmp_vars, sched>>

(***************************************************************************)
(* Learning-rate schedules                                                 *)
(***************************************************************************)

\* Rates are floats; here a rate is a fraction n/d in lowest terms times,
\* for the cosine schedule, the factor (1 + cos(pi * k / T)) / 2, which is
\* kept as the pair <<k, T>> (<< >> when there is no such factor).
Rate(f, cos) == [n |-> f[1], d |-> f[2], cos |-> cos]

FracMul(a, b) == Frac(a[1] * b[1], a[2] * b[2])

RECURSIVE FracPow(_, _)
FracPow(a, k) == IF k = 0 THEN Frac(1, 1) ELSE FracMul(a, FracPow(a, k - 1))

\* the defaults LRSchedulerFactory.create_scheduler falls back on for the
\* inner scheduler, which WarmupLRScheduler configures with total_epochs only
StepSize == 30
StepGammaPerMille == 100
CosineTMax == 100
ExpGammaPerMille == 950
CyclicBaseLrPerMillion == 100
CyclicMaxLrPerMillion == 10000
CyclicStepSize == 20

\* SchedulerType, the strategies a warmup can wrap
SchedulerType == {"step", "cosine", "linear", "exp", "cyclic"}

\* get_lr of the inner scheduler at last_epoch, for base rate base_lr and
\* the inner 'total_epochs' (StepLRScheduler .. CyclicLRScheduler, lines
\* 81-155)
InnerGetLr(type, base_lr, total_epochs, last_epoch) ==
    IF type = "step"
    THEN Rate(FracMul(Frac(base_lr, 1),
                      FracPow(Frac(StepGammaPerMille, 1000), last_epoch \div StepSize)), << >>)
    ELSE IF type = "cosine"
    THEN Rate(Frac(base_lr, 1), <<last_epoch, CosineTMax>>)
    ELSE IF type = "linear"
    THEN Rate(FracMul(Frac(base_lr, 1), Frac(total_epochs - last_epoch, total_epochs)), << >>)
    ELSE IF type = "exp"
    THEN Rate(FracMul(Frac(base_lr, 1), FracPow(Frac(ExpGammaPerMille, 1000), last_epoch)), << >>)
    ELSE LET cycle == 1 + last_epoch \div (2 * CyclicStepSize)
             x == Frac(Abs(last_epoch - (2 * cycle - 1) * CyclicStepSize), CyclicStepSize)
             rise == IF x[1] >= x[2] THEN Frac(0, 1) ELSE Frac(x[2] - x[1], x[2])
         IN  Rate(FracAdd(Frac(CyclicBaseLrPerMillion, 1000000),
                          FracMul(Frac(CyclicMaxLrPerMillion - CyclicBaseLrPerMillion, 1000000),
                                  rise)), << >>)

WarmupGetLr_not_rebased(s, last_epoch) ==
    IF last_epoch < s.warmup_epochs
    THEN Rate(Frac(s.base_lr * (last_epoch + 1), s.warmup_epochs), << >>)
    ELSE InnerGetLr(s.base_scheduler_type, s.base_lr,
                    s.total_epochs - s.warmup_epochs, last_epoch)

\* WarmupLRScheduler.get_lr (lines 176-184)
WarmupGetLr(s, last_epoch) ==
    IF last_epoch < s.warmup_epochs
    THEN Rate(Frac(s.base_lr * (last_epoch + 1), s.warmup_epochs), << >>)
    ELSE InnerGetLr(s.base_scheduler_type, s.base_lr,
                    s.total_epochs - s.warmup_epochs, last_epoch - s.warmup_epochs)

\* WarmupLRScheduler(optimizer, warmup_epochs, total_epochs, type) on an
\* optimizer with learning rate base_lr: _LRScheduler.__init__ makes the
\* initial step, which leaves last_epoch = 0 and sets the rate.  The inner
\* linear schedule divides by its total_epochs, so total_epochs exceeds
\* warmup_epochs.
WarmupLRSchedulerInit(warmup_epochs, total_epochs, base_lr, type) ==
    LET s == [warmup_epochs |-> warmup_epochs, total_epochs |-> total_epochs,
              base_lr |-> base_lr, base_scheduler_type |-> type]
    IN  [warmup_epochs |-> warmup_epochs, total_epochs |-> total_epochs,
         base_lr |-> base_lr, base_scheduler_type |-> type,
         last_epoch |-> 0, lr |-> WarmupGetLr(s, 0)]

\* no scheduler has been constructed
NoScheduler ==
    [warmup_epochs |-> 0, total_epochs |-> 0, base_lr |-> 0,
     base_scheduler_type |-> "none", last_epoch |-> 0,
     lr |-> Rate(Frac(0, 1), << >>)]

\* scheduler.step(): last_epoch += 1, then the rate is get_lr()
SchedulerStep ==
    /\ sched.last_epoch < sched.total_epochs
    /\ sched' = [sched EXCEPT !.last_epoch = @ + 1,
                              !.lr = WarmupGetLr(sched, sched.last_epoch + 1)]
    /\ UNCHANGED <<ensemble, cmp_vars, es_vars, mm_vars, tm_vars>>

(***************************************************************************)
(* ModelCompressor, ModelQuantizer and TrainingManager.compress_model      *)
(***************************************************************************)

\* CompressionType, and the types ModelCompressor.compress_model handles
CompressionType == {"pruning", "distillation", "quantization", "structure"}
QuantTypes == {"dynamic", "static", "qat", "other"}

\* what the caller passes as teacher_model: nothing, another module, or the
\* module it passes as model
TeacherArgs == {"none", "teacher", "model"}

\* a module as the caller built it
Module(training) == [params |-> "trained", structure |-> "original", training |-> training]

NoOutcome ==
    [calls |-> 0, raised |-> FALSE, result |-> << >>,
     via |-> "none",      \* the class whose method was called last
     type |-> "none",     \* the compression or quantization type asked for
     teacher |-> "none",  \* what was passed as teacher_model
     fault |-> FALSE]     \* a step of the call failed for a reason outside the request

\* compressed_dir is empty
NoFiles == [ns \in Namespaces |-> [weights |-> << >>, info |-> << >>]]

\* the body of compress_model after model_copy = deepcopy(model): the
\* module returned (<< >> if the call raises) and the caller's objects after
\* the call.  Pruning and structure compression work on the copy only;
\* _distill_model calls student_model.train() on the copy and
\* teacher_model.eval() on the object the caller passed (lines 140-141).
Compressed(compression_type, teacher_model, fails) ==
    LET model_copy == nn["model"]
    IN  IF compression_type = "pruning"
        THEN [result |-> IF fails THEN << >>
                         ELSE <<[model_copy EXCEPT !.params = "pruned"]>>,
              nn |-> nn]
        ELSE IF compression_type = "structure"
        THEN [result |-> IF fails THEN << >>
                         ELSE <<[model_copy EXCEPT !.params = "svd", !.structure = "compressed"]>>,
              nn |-> nn]
        ELSE IF compression_type = "distillation"
        THEN IF teacher_model = "none"
             THEN [result |-> << >>, nn |-> nn]
             ELSE [result |-> IF fails THEN << >>
                              ELSE <<[model_copy EXCEPT !.params = "distilled", !.training = TRUE]>>,
                   nn |-> [nn EXCEPT ![teacher_model].training = FALSE]]
        ELSE [result |-> << >>, nn |-> nn]

Outcome(result, via, type, teacher, fault) ==
    [calls |-> compression.calls + 1, raised |-> result = << >>, result |-> result,
     via |-> via, type |-> type, teacher |-> teacher, fault |-> fault]

\* ModelCompressor.compress_model(model, compression_type, config,
\* training_data, teacher_model)
compress_model(compression_type, teacher_model, fails) ==
    /\ compression.calls < MaxCompressions
    /\ LET r == Compressed(compression_type, teacher_model, fails)
       IN  /\ nn' = r.nn
           /\ compression' = Outcome(r.result, "ModelCompressor", compression_type,
                                     teacher_model, fails)
    /\ UNCHANGED <<compressed_files, ensemble, sched, es_vars, mm_vars, tm_vars>>

\* ModelQuantizer.quantize_model(model, calibration_data, quant_type,
\* qconfig): every variant works on copy.deepcopy(model); the original is
\* only read by _get_model_size.
quantize_model(quant_type, fails) ==
    /\ compression.calls < MaxCompressions
    /\ compression' = Outcome(IF fails \/ quant_type = "other" THEN << >>
                              ELSE <<[nn["model"] EXCEPT !.params = quant_type,
                                                         !.training = FALSE]>>,
                              "ModelQuantizer", quant_type, "none", fails)
    /\ UNCHANGED <<nn, compressed_files, ensemble, sched, es_vars, mm_vars, tm_vars>>

\* ModelCompressor.save_compressed_model: `written` of its two files are
\* written before it returns (2) or raises.  compression_info carries
\* datetime.now().isoformat(), which differs from call to call; the number
\* of the call stands for it.
save_compressed_model(model, compression_info, user_id, model_type, written) ==
    [compressed_files EXCEPT ![<<model_type, user_id>>] =
        [weights |-> IF written >= 1 THEN <<model.params>> ELSE @.weights,
         info    |-> IF written >= 2 THEN <<compression_info>> ELSE @.info]]

\* TrainingManager.compress_model (lines 906-956).  StudentModel is not a
\* name of the module: the isinstance test raises NameError unless the host
\* binds it (`bound`), and then gives the family of the model.
TMCompressModel(user_id, model_type, bound, compression_type, teacher_model, fails, written) ==
    /\ compression.calls < MaxCompressions
    /\ LET Called(result) == Outcome(result, "TrainingManager", compression_type, teacher_model,
                                     fails \/ ~bound \/ written < 2)
       IN
       IF ~bound
       THEN /\ compression' = Called(<< >>)
            /\ UNCHANGED <<nn, compressed_files>>
       ELSE LET r == Compressed(compression_type, teacher_model, fails)
                compression_info == [compression_type |-> compression_type,
                                     timestamp |-> compression.calls + 1]
            IN  /\ nn' = r.nn
                /\ IF r.result = << >>
                   THEN /\ compression' = Called(<< >>)
                        /\ UNCHANGED compressed_files
                   ELSE /\ compressed_files' = save_compressed_model(
                               r.result[1], compression_info, user_id, model_type, written)
                        /\ compression' = Called(IF written = 2 THEN r.result ELSE << >>)
    /\ UNCHANGED <<ensemble, sched, es_vars, mm_vars, tm_vars>>

\* no module has been compressed; both of the caller's modules are in
\* train mode, as nn.Module builds them
CompressionIdle ==
    /\ nn = [o \in {"model", "teacher"} |-> Module(TRUE)]
    /\ compressed_files = NoFiles
    /\ compression = NoOutcome

\* the utility classes in a specification that does not use them
UtilIdle == ensemble = ModelEnsembleInit /\ CompressionIdle /\ sched = NoScheduler

(***************************************************************************)
(* TrainingManager                                                         *)
(***************************************************************************)
\* self.config.get('eval_interval', 5); no configuration of the repository
\* sets the key
DefaultEvalInterval == 5

\* float('inf'), above every loss
Inf == MaxLoss + 1

JobIds == 1..MaxJobs

\* An invocation: its arguments, its position and its local variables.
\* progress is None while the local name is unbound; avg_loss lives within
\* one iteration and is the `loss` parameter of the epoch actions.
\* weights is the content of the tensors of the model argument: 0 as passed
\* in, n after the n-th training pass, which updates the tensors in place.
\* model.state_dict() is a dict of references to these tensors, and
\* EarlyStopping._update_best keeps a shallow copy of it (dict.copy()), so
\* the best_state of a student invocation is the number of the invocation
\* whose tensors it refers to, not a snapshot of their content.
JobIdle ==
    [family |-> "none", owner |-> 0, pc |-> "idle", epoch |-> 0,
     progress |-> None, weights |-> 0,
     best_loss |-> Inf, patience_counter |-> 0,
     data |-> "",      \* the training_data of the request, once preprocessing has read it
     exc |-> "",       \* the exception on its way to the except clause
     raised |-> ""]    \* the exception that left the call

\* training_status.get(user_id) is None
NoStatus ==
    [status |-> "absent", progress |-> 0, error |-> "",
     summary |-> << >>, model_version |-> None]

\* self.training_status[user_id] = {'status': 'training', ..., 'progress': 0}
NewStatus ==
    [status |-> "training", progress |-> 0, error |-> "",
     summary |-> << >>, model_version |-> None]

Running(j) == jobs[j].pc \notin {"idle", "returned", "raised"}

\* The sequential driver: a call is made when no other call is running,
\* and the job slots are used in order.
MayStart(j) ==
    /\ jobs[j].pc = "idle"
    /\ \A i \in JobIds : ~Running(i)
    /\ \A i \in JobIds : i < j => jobs[i].pc # "idle"

Progress_decreasing(epoch) == ((max_epochs - epoch) * 100) \div max_epochs

\* progress = (epoch + 1) / self.max_epochs * 100, held in whole percent
\* (rounded down): it is 100 exactly when epoch + 1 = max_epochs.
Progress(epoch) == ((epoch + 1) * 100) \div max_epochs

\* the part of get_training_summary() a status record is compared on
Summary(e) ==
    LET t == get_training_summary(e)
    IN  [best_score |-> t.best_score, best_epoch |-> t.best_epoch,
         total_epochs |-> t.total_epochs, stopped_early |-> t.stopped_early]

\* The call is over (pc is "returned" or "raised"): its locals are gone, the
\* model's tensors stay.
Ended(job, pc, raised) ==
    [JobIdle EXCEPT !.family = job.family, !.owner = job.owner,
                    !.pc = pc, !.raised = raised, !.weights = job.weights]

\* A step of the call raises: control goes to the except clause.
Raise(j, what) ==
    jobs' = [jobs EXCEPT ![j].pc = "except", ![j].exc = what]

\* A new call starts in slot j: the caller has consumed the results of the
\* earlier calls; of their models only the tensors that best_state refers to
\* can still be read.
Started(j, family, o) ==
    [i \in JobIds |->
        IF i = j THEN [JobIdle EXCEPT !.family = family, !.owner = o, !.pc = "preprocess"]
        ELSE IF jobs[i].pc = "idle" \/ Running(i) THEN jobs[i]
        ELSE [JobIdle EXCEPT !.pc = "returned",
                             !.weights = IF es.best_state = i THEN jobs[i].weights ELSE 0]]

StatusStarted_reset(o) == [u \in UserIds |-> IF u = o THEN NewStatus ELSE NoStatus]

\* self.training_status[user_id] = {'status': 'training', ...}: the map after
\* the assignment
StatusStarted(o) == [training_status EXCEPT ![o] = NewStatus]

\* The overlapping driver: a student call and a teacher call, started in
\* either order, the second after the first or, for another id, while the
\* first is running.
MayOverlap(j, family, o) ==
    /\ jobs[j].pc = "idle"
    /\ j = IF family = "student" THEN 1 ELSE 2
    /\ \A i \in JobIds : Running(i) => jobs[i].owner # o

\* The unguarded driver: as MayOverlap, but nothing keeps the second call
\* from being made for the id of the call that is running.
MayRace(j, family) ==
    /\ jobs[j].pc = "idle"
    /\ j = IF family = "student" THEN 1 ELSE 2

\* ---- train_student_model ----

\* lines 90-96: the status record is created
StudentBegins(j, o) ==
    /\ training_status' = StatusStarted(o)
    /\ jobs' = Started(j, "student", o)
    /\ UNCHANGED <<es_vars, mm_vars, max_epochs, eval_interval, util_vars, cache>>

StartStudent(j, o) == MayStart(j) /\ StudentBegins(j, o)

\* the training_data of a request: all required fields, or {}
RawData == {"complete", "empty"}

\* _preprocess_student_data / _preprocess_teacher_data (lines 460-493,
\* 495-547): the client factory may raise; then data['text'] (or
\* data['content']) is subscripted, which raises KeyError when the field is
\* missing; the embedding call and the tensor conversions may raise.  The
\* except clause logs and re-raises.
Preprocessed(j, data) ==
    \/ jobs' = [jobs EXCEPT ![j].data = data, ![j].pc = "except", ![j].exc = "preprocess"]
    \/ /\ data = "empty"
       /\ jobs' = [jobs EXCEPT ![j].data = data, ![j].pc = "except", ![j].exc = "KeyError"]
    \/ /\ data = "complete"
       /\ jobs' = [jobs EXCEPT ![j].data = data, ![j].pc = "epoch"]

\* lines 98-127: preprocessing (awaits the embedding service), data loader,
\* optimizer, scheduler; any of them may raise.
StudentPreprocess(j, data) ==
    /\ jobs[j].family = "student" /\ jobs[j].pc = "preprocess"
    /\ Preprocessed(j, data)
    /\ UNCHANGED <<es_vars, mm_vars, max_epochs, eval_interval, util_vars, cache, training_status>>

\* lines 129-172, an iteration that raises in the batch loop or in the
\* evaluation, before early stopping is consulted
StudentEpochRaises(j) ==
    /\ jobs[j].family = "student" /\ jobs[j].pc = "epoch"
    /\ Raise(j, "epoch")
    /\ UNCHANGED <<es_vars, mm_vars, max_epochs, eval_interval, util_vars, cache, training_status>>

\* lines 129-211, an iteration with average loss `loss`.  The pass leaves
\* the model's tensors with content epoch + 1; the state_dict handed to
\* EarlyStopping refers to the tensors of this invocation.
\* EarlyStopping.__call__ catches its own exceptions.  After the progress update the scheduler or
\* the learning-rate monitor may still raise (`late`).  The stopper's history
\* grows without limit over the invocations; MaxHistory caps it.
StudentEpoch(j, loss, late) ==
    /\ jobs[j].family = "student" /\ jobs[j].pc = "epoch"
    /\ Len(es.history) < MaxHistory
    /\ LET epoch == jobs[j].epoch
           o == jobs[j].owner
           r == EarlyStoppingCall(es_cfg, es, epoch, loss, j)
       IN  /\ es' = r.es
           /\ IF r.ret
              THEN /\ ~late
                   /\ jobs' = [jobs EXCEPT ![j].pc = "finish", ![j].weights = epoch + 1]
                   /\ UNCHANGED training_status
              ELSE /\ training_status' = [training_status EXCEPT ![o].progress = Progress(epoch)]
                   /\ jobs' = [jobs EXCEPT
                         ![j].weights = epoch + 1,
                                    ![j].progress = Progress(epoch),
                         ![j].exc = IF late THEN "epoch" ELSE @,
                         ![j].epoch = IF late THEN @ ELSE @ + 1,
                         ![j].pc = IF late THEN "except"
                                   ELSE IF epoch + 1 < max_epochs THEN "epoch"
                                   ELSE "finish"]
    /\ UNCHANGED <<es_cfg, es_ret, es_first, es_arg, mm_vars, max_epochs, eval_interval, util_vars, cache>>

\* lines 213-227: restore the best state, store the summary, mark the record
\* completed.  get_best_state() reads self.best_state, which does not exist
\* if _update_best never ran: AttributeError.  load_state_dict copies the
\* content of the tensors best_state refers to into the model's tensors.
StudentFinish(j) ==
    /\ jobs[j].family = "student" /\ jobs[j].pc = "finish"
    /\ IF es_cfg.restore_best /\ es.best_state = None
       THEN /\ Raise(j, "finish")
            /\ UNCHANGED training_status
       ELSE /\ training_status' = [training_status EXCEPT
                  ![jobs[j].owner].summary = <<Summary(es)>>,
                  ![jobs[j].owner].status = "completed"]
            /\ jobs' = [jobs EXCEPT ![j].pc = "post",
                                    ![j].weights = jobs[get_best_state(es_cfg, es)].weights]
    /\ UNCHANGED <<es_vars, mm_vars, max_epochs, eval_interval, util_vars, cache>>

\* lines 229-284: learning-rate history, visualisations, metrics, cache
\* invalidation, return.  The steps before the invalidation may raise (line
\* 235 reads the name training_history, which the function never binds);
\* the manager's own CacheManager invalidates the keys made from the
\* positional arguments (student_id) and (student_id, 'student').
StudentPost(j) ==
    /\ jobs[j].family = "student" /\ jobs[j].pc = "post"
    /\ \/ /\ jobs' = [jobs EXCEPT ![j] = Ended(@, "returned", "")]
          /\ cache' = invalidate(
                          invalidate(cache, "manager", CACHE_KEYS.training_status,
                                     <<ToString(jobs[j].owner)>>, << >>),
                          "manager", CACHE_KEYS.model_info,
                          <<ToString(jobs[j].owner), "student">>, << >>)
       \/ /\ Raise(j, "post")
          /\ UNCHANGED cache
    /\ UNCHANGED <<es_vars, mm_vars, max_epochs, eval_interval, util_vars, training_status>>

\* lines 286-300: the except clause.  It first reads the local `progress`
\* (line 292); if no epoch has assigned it, that read raises
\* UnboundLocalError and the clause is left before the record is updated.
StudentExcept(j) ==
    /\ jobs[j].family = "student" /\ jobs[j].pc = "except"
    /\ IF jobs[j].progress = None
       THEN /\ jobs' = [jobs EXCEPT ![j] = Ended(@, "raised", "UnboundLocalError")]
            /\ UNCHANGED training_status
       ELSE /\ training_status' = [training_status EXCEPT
                  ![jobs[j].owner].status = "failed",
                  ![jobs[j].owner].error = jobs[j].exc]
            /\ jobs' = [jobs EXCEPT ![j] = Ended(@, "raised", jobs[j].exc)]
    /\ UNCHANGED <<es_vars, mm_vars, max_epochs, eval_interval, util_vars, cache>>

\* ---- train_teacher_model ----

\* lines 313-319
TeacherBegins(j, o) ==
    /\ training_status' = StatusStarted(o)
    /\ jobs' = Started(j, "teacher", o)
    /\ UNCHANGED <<es_vars, mm_vars, max_epochs, eval_interval, util_vars, cache>>

StartTeacher(j, o) == MayStart(j) /\ TeacherBegins(j, o)

\* lines 321-339
TeacherPreprocess(j, data) ==
    /\ jobs[j].family = "teacher" /\ jobs[j].pc = "preprocess"
    /\ Preprocessed(j, data)
    /\ UNCHANGED <<es_vars, mm_vars, max_epochs, eval_interval, util_vars, cache, training_status>>

\* lines 341-364, an iteration that raises in the batch loop
TeacherEpochRaises(j) ==
    /\ jobs[j].family = "teacher" /\ jobs[j].pc = "epoch"
    /\ Raise(j, "epoch")
    /\ UNCHANGED <<es_vars, mm_vars, max_epochs, eval_interval, util_vars, cache, training_status>>

\* lines 366-371 with _save_model (420-458), an improving iteration whose
\* checkpoint save raises; _save_model re-raises.
TeacherEpochSaveRaises(j, loss) ==
    /\ jobs[j].family = "teacher" /\ jobs[j].pc = "epoch"
    /\ loss < jobs[j].best_loss
    /\ \E created \in BOOLEAN : save_model_raises(<<"teacher", jobs[j].owner>>, created)
    /\ jobs' = [jobs EXCEPT ![j].best_loss = loss,
                            ![j].patience_counter = 0,
                            ![j].pc = "except", ![j].exc = "epoch"]
    /\ UNCHANGED <<es_vars, max_versions, now, mm_log, max_epochs, eval_interval, util_vars, cache, training_status>>

\* the tail of an iteration, lines 378-392: progress update, then the
\* evaluation on every eval_interval-th epoch, which may raise (`late`)
TeacherEpochTail(j, loss, version, late) ==
    LET epoch == jobs[j].epoch
        o == jobs[j].owner
    IN  /\ late => epoch % eval_interval = 0
        /\ training_status' = [training_status EXCEPT
              ![o].progress = Progress(epoch),
              ![o].model_version = IF version = None THEN @ ELSE version]
        /\ jobs' = [jobs EXCEPT
              ![j].best_loss = IF loss < @ THEN loss ELSE @,
              ![j].patience_counter = IF loss < jobs[j].best_loss THEN 0 ELSE @ + 1,
              ![j].progress = Progress(epoch),
              ![j].exc = IF late THEN "epoch" ELSE @,
              ![j].epoch = IF late THEN @ ELSE @ + 1,
              ![j].pc = IF late THEN "except"
                        ELSE IF epoch + 1 < max_epochs THEN "epoch"
                        ELSE "finish"]

\* lines 341-392, an iteration with average loss `loss`.  An improvement
\* saves a checkpoint (line 371), otherwise the patience counter goes up
\* and may end the loop (374-376).
TeacherEpoch(j, loss, late) ==
    /\ jobs[j].family = "teacher" /\ jobs[j].pc = "epoch"
    /\ IF loss < jobs[j].best_loss
       THEN /\ \E done \in 0..MaxEpochs + 1 :
                  save_model_returns(<<"teacher", jobs[j].owner>>, done)
            /\ cache' = invalidate(cache, "manager", CACHE_KEYS.model_info,
                                   <<ToString(jobs[j].owner), "teacher">>, << >>)
            /\ TeacherEpochTail(j, loss, version_id(now), late)
       ELSE /\ UNCHANGED <<dirs, cache>>
            /\ IF jobs[j].patience_counter + 1 >= es_cfg.patience
               THEN /\ ~late
                    /\ jobs' = [jobs EXCEPT ![j].patience_counter = @ + 1,
                                            ![j].pc = "finish"]
                    /\ UNCHANGED training_status
               ELSE TeacherEpochTail(j, loss, None, late)
    /\ UNCHANGED <<es_vars, max_versions, now, mm_log, max_epochs, eval_interval, util_vars>>

\* lines 394-405: mark the record completed and return
TeacherFinish(j) ==
    /\ jobs[j].family = "teacher" /\ jobs[j].pc = "finish"
    /\ training_status' = [training_status EXCEPT ![jobs[j].owner].status = "completed"]
    /\ jobs' = [jobs EXCEPT ![j] = Ended(@, "returned", "")]
    /\ UNCHANGED <<es_vars, mm_vars, max_epochs, eval_interval, util_vars, cache>>

\* lines 407-414: the except clause
TeacherExcept(j) ==
    /\ jobs[j].family = "teacher" /\ jobs[j].pc = "except"
    /\ training_status' = [training_status EXCEPT
          ![jobs[j].owner].status = "failed",
          ![jobs[j].owner].error = jobs[j].exc]
    /\ jobs' = [jobs EXCEPT ![j] = Ended(@, "raised", jobs[j].exc)]
    /\ UNCHANGED <<es_vars, mm_vars, max_epochs, eval_interval, util_vars, cache>>

\* TrainingManager.get_training_status
get_training_status(user_id) ==
    IF training_status[user_id].status = "absent" THEN None ELSE training_status[user_id]

\* TrainingManager.__init__: one EarlyStopping (min mode, restore_best) and
\* one ModelManager for all invocations.  The calls of Spec are short: the
\* clock stays within one second, all checkpoints of a run carry the same
\* version_id and the retention count, which then plays no part, is fixed.
\* Losses are whole numbers here, so the default min_delta (1e-4) is 0, and
\* the baseline is either absent or the lowest loss.
TrainingManagerConfigured(cache_backend) ==
    /\ max_epochs \in 1..MaxEpochs
    /\ eval_interval = DefaultEvalInterval
    /\ training_status = [o \in UserIds |-> NoStatus]
    /\ jobs = [j \in JobIds |-> JobIdle]
    /\ cache = CacheInit(cache_backend)
    /\ es_cfg \in [patience : 0..MaxPatience, min_delta : {0},
                   mode : {"min"}, baseline : {None, 0},
                   restore_best : {TRUE}]
    /\ es = EarlyStoppingInit
    /\ es_ret = "none"
    /\ es_first = 0
    /\ es_arg = None
    /\ max_versions = MaxVersions
    /\ now = 0
    /\ dirs = [ns \in Namespaces |-> {}]
    /\ mm_log = [ns \in Namespaces |-> MMLogInit]
    /\ UtilIdle

\* config.get('cache_backend', 'memory')
TrainingManagerInit == TrainingManagerConfigured("memory")

\* routes.get_training_status behind @cache_manager.cache('train_status',
\* expire=60) (routes.py:134-158, cache.py:156-191).  The framework calls the
\* endpoint with the keyword argument user_id, which is what the wrapper
\* makes the key from.  A hit answers with the pickled result; a miss calls
\* the endpoint and stores its result; an unknown user raises (404), which
\* stores nothing.  data is << >> or <<the status record>>.
\* get_training_manager() (routes.py:351-357) constructs a TrainingManager
\* on every call, whose training_status is empty (`fresh`); the API tests
\* replace it by a function that returns the manager under test.
\* The endpoint raises HTTPException(404) inside its own try block, whose
\* `except Exception` turns it into HTTPException(500) (routes.py:147-158).
\* The wrapper's `except Exception` (cache.py:191-193) catches that and
\* calls the endpoint a second time, whose exception leaves the wrapper.
\* code is the HTTP status of the reply, executions the number of times the
\* endpoint's body ran.
CachedGetTrainingStatus(user_id, fresh) ==
    LET key == _generate_key(CACHE_KEYS.training_status, << >>,
                             << <<"user_id", ToString(user_id)>> >>)
        store == StoreOf(cache, "routes")
        status == IF fresh THEN NoStatus ELSE training_status[user_id]
        result == <<status>>
        Reply(hit, data, code, executions) ==
            [user_id |-> user_id, hit |-> hit, data |-> data,
             code |-> code, executions |-> executions]
    IN  /\ cache' =
              IF Present(store, key)
              THEN [cache EXCEPT !.reply = Reply(TRUE, BackendGet(store, key), 200, 0)]
              ELSE IF status.status = "absent"
              THEN [cache EXCEPT !.reply = Reply(FALSE, << >>, 500, 2)]
              ELSE [WithStore(cache, "routes", BackendSet(store, key, result))
                        EXCEPT !.reply = Reply(FALSE, result, 200, 1)]
        /\ UNCHANGED <<es_vars, mm_vars, max_epochs, eval_interval, util_vars, training_status, jobs>>

\* the expire time of an entry of the routes' cache has passed
CacheEntryExpires ==
    /\ \E e \in StoreOf(cache, "routes") :
          cache' = WithStore(cache, "routes", StoreOf(cache, "routes") \ {e})
    /\ UNCHANGED <<es_vars, mm_vars, max_epochs, eval_interval, util_vars, training_status, jobs>>

(***************************************************************************)
(* The specifications                                                      *)
(***************************************************************************)

\* the EarlyStopping part of a specification that does not use it
ESIdle ==
    /\ es_cfg = [patience |-> 5, min_delta |-> 0, mode |-> "min",
                 baseline |-> None, restore_best |-> TRUE]
    /\ es = EarlyStoppingInit
    /\ es_ret = "none"
    /\ es_first = 0
    /\ es_arg = None

\* the ModelManager part of a specification that does not use it
MMIdle ==
    /\ max_versions = 1
    /\ now = 0
    /\ dirs = [ns \in Namespaces |-> {}]
    /\ mm_log = [ns \in Namespaces |-> MMLogInit]

\* the TrainingManager part of a specification that does not use it
TMIdle ==
    /\ max_epochs = 1
    /\ eval_interval = 1
    /\ training_status = [o \in UserIds |-> NoStatus]
    /\ jobs = [j \in JobIds |-> JobIdle]
    /\ cache = CacheInit("memory")

\* ---- Spec: one TrainingManager, its training calls made one at a time ----

Init == TrainingManagerInit

\* a step of an invocation that has started
InvocationStep ==
    \/ \E j \in JobIds, data \in RawData : StudentPreprocess(j, data)
    \/ \E j \in JobIds : StudentEpochRaises(j)
    \/ \E j \in JobIds, loss \in 0..MaxLoss, late \in BOOLEAN : StudentEpoch(j, loss, late)
    \/ \E j \in JobIds : StudentFinish(j)
    \/ \E j \in JobIds : StudentPost(j)
    \/ \E j \in JobIds : StudentExcept(j)
    \/ \E j \in JobIds, data \in RawData : TeacherPreprocess(j, data)
    \/ \E j \in JobIds : TeacherEpochRaises(j)
    \/ \E j \in JobIds, loss \in 0..MaxLoss : TeacherEpochSaveRaises(j, loss)
    \/ \E j \in JobIds, loss \in 0..MaxLoss, late \in BOOLEAN : TeacherEpoch(j, loss, late)
    \/ \E j \in JobIds : TeacherFinish(j)
    \/ \E j \in JobIds : TeacherExcept(j)

Next ==
    \/ \E j \in JobIds, o \in Owners : StartStudent(j, o)
    \/ \E j \in JobIds, o \in Owners : StartTeacher(j, o)
    \/ InvocationStep

Spec == Init /\ [][Next]_vars

\* ---- SpecCC: one TrainingManager, calls for different ids overlapping ----
\* The coroutines give up control at their awaits, threads anywhere; every
\* interleaving of the steps is allowed.

OverlappingNext ==
    \/ \E j \in JobIds, o \in UserIds : MayOverlap(j, "student", o) /\ StudentBegins(j, o)
    \/ \E j \in JobIds, o \in UserIds : MayOverlap(j, "teacher", o) /\ TeacherBegins(j, o)
    \/ InvocationStep

\* one configuration: every epoch of the longest run, the largest patience
OverlappingInit ==
    /\ TrainingManagerInit
    /\ max_epochs = MaxEpochs
    /\ es_cfg.patience = MaxPatience
    /\ es_cfg.baseline = None

SpecCC == OverlappingInit /\ [][OverlappingNext]_vars

\* ---- SpecRace: one TrainingManager, overlapping calls for one id ----

RaceNext ==
    \/ \E j \in JobIds, o \in Owners : MayRace(j, "student") /\ StudentBegins(j, o)
    \/ \E j \in JobIds, o \in Owners : MayRace(j, "teacher") /\ TeacherBegins(j, o)
    \/ InvocationStep

SpecRace == OverlappingInit /\ [][RaceNext]_vars

\* ---- SpecAPI: the service: training calls and status requests ----

APIInit == \E cache_backend \in CacheBackends : TrainingManagerConfigured(cache_backend)

APINext ==
    \/ Next
    \/ \E user_id \in Owners, fresh \in BOOLEAN : CachedGetTrainingStatus(user_id, fresh)
    \/ CacheEntryExpires

SpecAPI == APIInit /\ [][APINext]_vars

\* ---- SpecES: a freshly constructed EarlyStopping fed call by call ----

ESInit ==
    /\ es_cfg \in EarlyStoppingConfigs
    /\ es = EarlyStoppingInit
    /\ es_ret = "none"
    /\ es_first \in 0..1
    /\ es_arg = None
    /\ MMIdle
    /\ TMIdle
    /\ UtilIdle

\* One __call__ by a driver that passes consecutive epoch numbers and the
\* model's state_dict after each pass; the state after the n-th pass is
\* numbered n.
ESCall(score) ==
    /\ Len(es.history) < MaxCalls
    /\ LET model_state == Len(es.history) + 1
           r == EarlyStoppingCall(es_cfg, es, es_first + Len(es.history),
                                  score, model_state)
       IN  /\ es' = r.es
           /\ es_ret' = IF r.ret THEN "True" ELSE "False"
           /\ es_arg' = model_state
    /\ UNCHANGED <<es_cfg, es_first>>
    /\ UNCHANGED <<mm_vars, tm_vars, util_vars>>

ESNext == \E score \in Scores : ESCall(score)

SpecES == ESInit /\ [][ESNext]_vars

\* ---- SpecMM: one ModelManager on an empty model_dir ----

MMNext ==
    \/ Tick
    \/ \E ns \in StoreNamespaces : SaveModelReturns(ns)
    \/ \E ns \in StoreNamespaces : SaveModelRaises(ns)
    \/ \E ns \in StoreNamespaces, v \in Versions : DeleteVersion(ns, v)

MMInit == ModelManagerInit /\ ESIdle /\ TMIdle /\ UtilIdle

SpecMM == MMInit /\ [][MMNext]_vars

\* ---- SpecEnsemble: one ModelEnsemble, add_model called with any weights ----

EnsembleInit == UtilIdle /\ ESIdle /\ MMIdle /\ TMIdle

EnsembleNext == \E weight \in -MaxWeight..MaxWeight, bad \in BOOLEAN : add_model(weight, bad)

SpecEnsemble == EnsembleInit /\ [][EnsembleNext]_vars

\* ---- SpecCompress: compress and quantize calls on the caller's model ----
\* The caller's modules are in train or eval mode when the first call is
\* made.

CompressInit ==
    /\ nn \in [{"model", "teacher"} -> {Module(TRUE), Module(FALSE)}]
    /\ compressed_files = NoFiles
    /\ compression = NoOutcome
    /\ ensemble = ModelEnsembleInit
    /\ sched = NoScheduler
    /\ ESIdle /\ MMIdle /\ TMIdle

CompressNext ==
    \/ \E compression_type \in CompressionType, teacher_model \in TeacherArgs, fails \in BOOLEAN :
          compress_model(compression_type, teacher_model, fails)
    \/ \E quant_type \in QuantTypes, fails \in BOOLEAN : quantize_model(quant_type, fails)
    \/ \E user_id \in UserIds, model_type \in ModelTypes, bound \in BOOLEAN,
          compression_type \in CompressionType, teacher_model \in TeacherArgs,
          fails \in BOOLEAN, written \in 0..2 :
          TMCompressModel(user_id, model_type, bound, compression_type, teacher_model, fails, written)

SpecCompress == CompressInit /\ [][CompressNext]_vars

\* ---- SpecLR: one WarmupLRScheduler, stepped once per epoch ----

LRInit ==
    /\ \E warmup_epochs \in 1..MaxWarmup, total_epochs \in 1..MaxTotalEpochs,
          base_lr \in 1..MaxBaseLr, type \in SchedulerType :
          /\ total_epochs > warmup_epochs
          /\ sched = WarmupLRSchedulerInit(warmup_epochs, total_epochs, base_lr, type)
    /\ ensemble = ModelEnsembleInit
    /\ CompressionIdle
    /\ ESIdle /\ MMIdle /\ TMIdle

LRNext == SchedulerStep

SpecLR == LRInit /\ [][LRNext]_vars

(***************************************************************************)
(* Properties of the stopping policy (checked under SpecES)                *)
(***************************************************************************)

\* "Improved" as section 4.3 defines it.
Improves(mode, delta, best, score) ==
    IF mode = "min" THEN score < best - delta ELSE score > best + delta

\* The best score and the number of consecutive non-improving calls since
\* the last improving call, after the first n entries of history h.
RECURSIVE Track(_, _, _)
Track(c, h, n) ==
    IF n = 1 THEN [best |-> h[1].score, strikes |-> 0]
    ELSE LET p == Track(c, h, n - 1)
         IN  IF Improves(c.mode, c.min_delta, p.best, h[n].score)
             THEN [best |-> h[n].score, strikes |-> 0]
             ELSE [best |-> p.best, strikes |-> p.strikes + 1]

Better(mode, a, b) == IF mode = "min" THEN a < b ELSE a > b

\* every score strictly better than the one before
StrictlyImproving(c, h) ==
    \A i \in 2..Len(h) : Better(c.mode, h[i].score, h[i-1].score)

\* every score better than the one before by more than min_delta
ImprovingByMoreThanDelta(c, h) ==
    \A i \in 2..Len(h) : Improves(c.mode, c.min_delta, h[i-1].score, h[i].score)

ConstantScores(h) == \A i \in 1..Len(h) : h[i].score = h[1].score

\* C6 as stated: with no baseline, a call returns True (and the early-stop
\* flag is set) exactly when the number of consecutive non-improving calls
\* since the last improving call has reached patience.
C6_ReturnsTrueIffStrikesReachPatience ==
    (es_cfg.baseline = None /\ Len(es.history) >= 1) =>
        /\ (es_ret = "True") <=> (Track(es_cfg, es.history, Len(es.history)).strikes >= es_cfg.patience)
        /\ (es_ret = "True") => es.early_stop

\* C6 amended: with no baseline, the first call returns False whatever the
\* patience; every later call returns True (and the early-stop flag is set)
\* exactly when the number of consecutive non-improving calls since the
\* last improving call has reached patience.
C6_AfterFirstCallTrueIffStrikesReachPatience ==
    (es_cfg.baseline = None /\ Len(es.history) >= 1) =>
        IF Len(es.history) = 1
        THEN es_ret = "False" /\ ~es.early_stop
        ELSE /\ (es_ret = "True") <=> (Track(es_cfg, es.history, Len(es.history)).strikes >= es_cfg.patience)
             /\ (es_ret = "True") => es.early_stop

C6_Witness ==
    /\ es_cfg.baseline = None /\ es_cfg.patience = 2 /\ es_cfg.min_delta = 1
    /\ Len(es.history) = 4
    /\ es_ret = "True"
    /\ es.best_epoch = es.history[2].epoch

\* C7 as stated: for a strictly improving score sequence (patience >= 1,
\* min_delta >= 0) no call returns True and stopped_early is False.
C7_StrictlyImprovingNeverStops ==
    (es_cfg.patience >= 1 /\ Len(es.history) >= 1 /\ StrictlyImproving(es_cfg, es.history)) =>
        /\ es_ret # "True"
        /\ ~get_training_summary(es).stopped_early

\* C7 amended: for a score sequence in which each score is better than the
\* one before by more than min_delta (patience >= 1), no call returns True
\* and stopped_early is False.
C7_ImprovingByMoreThanDeltaNeverStops ==
    (es_cfg.patience >= 1 /\ Len(es.history) >= 1 /\ ImprovingByMoreThanDelta(es_cfg, es.history)) =>
        /\ es_ret # "True"
        /\ ~get_training_summary(es).stopped_early

C7_Witness ==
    /\ es_cfg.patience = 1 /\ es_cfg.min_delta = 0
    /\ Len(es.history) = 3
    /\ ImprovingByMoreThanDelta(es_cfg, es.history)
    /\ es.best_epoch = es.history[3].epoch
    /\ es_ret = "False"

\* C8 as stated: for a constant score sequence longer than patience
\* (patience >= 0) the summary has stopped_early = True and best_epoch is
\* the epoch passed on the first call.
C8_ConstantSequenceStops ==
    (Len(es.history) > es_cfg.patience /\ Len(es.history) >= 1 /\ ConstantScores(es.history)) =>
        /\ get_training_summary(es).stopped_early
        /\ get_training_summary(es).best_epoch = es_first

\* C8 amended: for a constant score sequence of at least two calls and
\* longer than patience, whose score is not on the unfavourable side of a
\* configured baseline, the summary has stopped_early = True and best_epoch
\* is the epoch passed on the first call.
C8_ConstantSequenceOfTwoOrMoreStops ==
    (/\ Len(es.history) > es_cfg.patience
     /\ Len(es.history) >= 2
     /\ ConstantScores(es.history)
     /\ ~BelowBaseline(es_cfg, es.history[1].score)) =>
        /\ get_training_summary(es).stopped_early
        /\ get_training_summary(es).best_epoch = es_first

C8_Witness ==
    /\ es_cfg.patience = 2 /\ es_first = 1
    /\ Len(es.history) = 3
    /\ ConstantScores(es.history)
    /\ es.early_stop

\* C9: with a baseline configured, a call whose score is on the unfavourable
\* side of the baseline and improves on the current best (or is the first
\* score to be recorded) updates best_score, best_epoch and the stored best
\* model state to that call's values.
C9_UnfavourableImprovementIsTracked ==
    [][ (/\ Len(es'.history) = Len(es.history) + 1
         /\ es_cfg.baseline # None
         /\ BelowBaseline(es_cfg, es'.history[Len(es'.history)].score)
         /\ \/ es.best_score = None
            \/ Improves(es_cfg.mode, es_cfg.min_delta, es.best_score,
                        es'.history[Len(es'.history)].score))
        => (/\ es'.best_score = es'.history[Len(es'.history)].score
            /\ es'.best_epoch = es'.history[Len(es'.history)].epoch
            /\ es_cfg.restore_best => es'.best_state = es_arg') ]_vars

(***************************************************************************)
(* Properties of the checkpoint store (checked under SpecMM)               *)
(***************************************************************************)

\* the k greatest elements of S
TopK(S, k) ==
    LET sorted == SortedDesc(S)
    IN  {sorted[i] : i \in 1..(IF Len(sorted) < k THEN Len(sorted) ELSE k)}

\* C4: after N > max_versions save_model calls for one namespace that all
\* returned, with no delete_version call, exactly max_versions version
\* directories exist, and they are the max_versions greatest version_ids
\* that were returned.
C4_ExactlyKMostRecentRemain ==
    \A ns \in Namespaces :
        (/\ mm_log[ns].saves > max_versions
         /\ ~mm_log[ns].raised
         /\ ~mm_log[ns].deleted) =>
            /\ Cardinality(dirs[ns]) = max_versions
            /\ dirs[ns] = TopK(mm_log[ns].issued, max_versions)

StatusOf(j) == training_status[jobs[j].owner]

\* C1: when a step of a training call raises after the status record was
\* created, the except clause leaves the record with status 'failed' and
\* the error's message, and the same error leaves the call.
C1_FailureIsRecordedAndReraised ==
    [][ \A j \in JobIds :
          (jobs[j].pc = "except" /\ jobs'[j].pc = "raised") =>
              /\ training_status'[jobs[j].owner].status = "failed"
              /\ training_status'[jobs[j].owner].error = jobs[j].exc
              /\ jobs'[j].raised = jobs[j].exc ]_vars

\* C2 as stated: during a training call the progress of its status record
\* never decreases, and progress is 100 only while the status is
\* 'completed'.
C2_ProgressMonotoneAnd100OnlyCompleted ==
    [][ /\ \A j \in JobIds :
              Running(j) =>
                  training_status'[jobs[j].owner].progress >= StatusOf(j).progress
        /\ \A o \in Owners :
              training_status'[o].progress = 100 =>
                  training_status'[o].status = "completed" ]_vars

\* C2 amended: during a training call the progress of its status record
\* never decreases, and progress becomes 100 only in the progress update of
\* the last epoch (index max_epochs - 1), made while the status is still
\* 'training'; the status becomes 'completed' or 'failed' only afterwards.
C2_ProgressMonotoneAnd100AtLastEpoch ==
    [][ /\ \A j \in JobIds :
              Running(j) =>
                  training_status'[jobs[j].owner].progress >= StatusOf(j).progress
        /\ \A o \in Owners :
              (training_status'[o].progress = 100 /\ training_status[o].progress # 100) =>
                  /\ training_status'[o].status = "training"
                  /\ \E j \in JobIds :
                        /\ jobs[j].owner = o
                        /\ jobs[j].pc = "epoch"
                        /\ jobs[j].epoch = max_epochs - 1 ]_vars

C2_Witness ==
    \E j \in JobIds :
        /\ jobs[j].pc = "finish"
        /\ max_epochs = 2
        /\ jobs[j].epoch = 2
        /\ StatusOf(j).progress = 100
        /\ StatusOf(j).status = "training"

\* C3: within a training call the status only goes from 'training' to
\* 'completed' or from 'training' to 'failed'; a 'completed' or 'failed'
\* record is not changed again by the same call.
C3_StatusOnlyLeavesTraining ==
    [][ \A j \in JobIds :
          Running(j) =>
              \/ training_status'[jobs[j].owner].status = StatusOf(j).status
              \/ /\ StatusOf(j).status = "training"
                 /\ training_status'[jobs[j].owner].status \in {"completed", "failed"} ]_vars

\* C10: every training call starts with a stopping state in its initial
\* condition: no best score, zero strikes, empty history, flag unset.
C10_CallStartsWithFreshStoppingState ==
    \A j \in JobIds :
        jobs[j].pc = "preprocess" =>
            /\ jobs[j].family = "student" =>
                  /\ es.best_score = None
                  /\ es.counter = 0
                  /\ es.history = << >>
                  /\ ~es.early_stop
            /\ jobs[j].family = "teacher" =>
                  /\ jobs[j].best_loss = Inf
                  /\ jobs[j].patience_counter = 0

\* the directory {model_dir}/{model_type}_{user_id} of an invocation
NamespaceOf(j) == <<jobs[j].family, jobs[j].owner>>

\* The stopping policy records a new best score in this step of invocation j:
\* EarlyStopping._update_best ran (student family), or the local best_loss
\* went down (teacher family).
RecordsImprovement(j) ==
    /\ jobs[j].pc = "epoch"
    /\ \/ /\ jobs[j].family = "student"
          /\ \/ es'.best_score # es.best_score
             \/ es'.best_epoch # es.best_epoch
       \/ /\ jobs[j].family = "teacher"
          /\ jobs'[j].best_loss < jobs[j].best_loss

\* C11: in a training invocation of either family, an epoch that records an
\* improvement and goes on (to the next epoch or to the end of the loop) has
\* written a checkpoint of this moment to the invocation's directory.
C11_ImprovementWritesCheckpoint ==
    [][ \A j \in JobIds :
          (RecordsImprovement(j) /\ jobs'[j].pc \in {"epoch", "finish"}) =>
              version_id(now) \in dirs'[NamespaceOf(j)] ]_vars

\* C12: when train_student_model has left the epoch loop and restored the
\* best state (restore-on-best enabled), the model's weights are those it had
\* at the end of the epoch recorded as best_epoch, which left them with
\* content best_epoch + 1.
C12_RestoredWeightsAreBestEpochWeights ==
    [][ \A j \in JobIds :
          (/\ jobs[j].family = "student"
           /\ jobs[j].pc = "finish" /\ jobs'[j].pc = "post"
           /\ es_cfg.restore_best) =>
              jobs'[j].weights = es.best_epoch + 1 ]_vars

\* C13: whenever train_student_model or train_teacher_model has returned
\* status 'success', the returned model_path {model_dir}/{type}_{id} exists:
\* at least one checkpoint has been written under it.
C13_SuccessHasCheckpoint ==
    \A j \in JobIds :
        (jobs[j].pc = "returned" /\ jobs[j].family \in ModelTypes) =>
            dirs[NamespaceOf(j)] # {}

\* C14: once a training invocation for an owner has completed (returned), a
\* status request for that owner answered from the routes' cache gets the
\* owner's current status record, never a value cached earlier.
C14_NoStaleStatusAfterCompletion ==
    [][ \A o \in Owners :
          (/\ cache'.reply # cache.reply
           /\ cache'.reply.user_id = o /\ cache'.reply.hit
           /\ \E j \in JobIds : jobs[j].owner = o /\ jobs[j].pc = "returned") =>
              cache'.reply.data = <<training_status[o]>> ]_vars

\* C15: jobs are kept per (model_type, owner_id): when an invocation of one
\* family starts for an id whose latest finished invocation was of the other
\* family, the status record that invocation left stays as it is.
C15_OtherFamilyRecordUntouched ==
    [][ \A j \in JobIds, i \in JobIds :
          (/\ jobs[j].pc = "idle" /\ jobs'[j].pc = "preprocess"
           /\ jobs[i].pc \in {"returned", "raised"}
           /\ jobs[i].family \in ModelTypes
           /\ jobs[i].family # jobs'[j].family
           /\ jobs[i].owner = jobs'[j].owner) =>
              training_status'[jobs[i].owner] = training_status[jobs[i].owner] ]_vars

\* invocation j takes the step: it starts, or it is running and moves on
Acts(j) ==
    /\ jobs'[j] # jobs[j]
    /\ jobs[j].pc = "idle" \/ Running(j)

\* the id invocation j works for
OwnerInStep(j) == IF jobs[j].pc = "idle" THEN jobs'[j].owner ELSE jobs[j].owner

C17_WeightsSumToOne ==
    ensemble.weights # << >> => sum(ensemble.weights[1]) = Frac(1, 1)


(***************************************************************************)
(* Properties of compression (checked under SpecCompress)                  *)
(***************************************************************************)

\* C18: a compress_model or quantize_model call, returning or raising,
\* leaves the model passed in as it was: parameters, structure and
\* train/eval mode.
C18_InputModelUnchanged ==
    [][ compression'.calls # compression.calls => nn'["model"] = nn["model"] ]_vars

\* C19: a compression persists its result under a path of its own: what an
\* earlier TrainingManager.compress_model call stored is still there,
\* unchanged, after any later call.
C19_EarlierResultKept ==
    [][ \A ns \in Namespaces :
          compressed_files[ns].info # << >> =>
              compressed_files'[ns] = compressed_files[ns] ]_vars


\* C20 (checked under SpecMM): a version, once created, is not written
\* again: a save_model call that returns has created its version directory,
\* it did not find it there.
C20_NoSaveIntoExistingVersion ==
    [][ \A ns \in Namespaces :
          mm_log'[ns].saves = mm_log[ns].saves + 1 =>
              version_id(now) \notin dirs[ns] ]_vars


NewestComplete(ns) == SetMax(mm_log[ns].complete)

\* C28 (checked under SpecMM): whenever a completely written checkpoint
\* exists, load_model / get_model_info with version_id=None return the
\* newest one; a directory left by an interrupted save is not chosen.
C28_LatestIsNewestCompleteVersion ==
    \A ns \in Namespaces :
        mm_log[ns].complete # {} =>
            /\ load_model(ns, None) = ToString(NewestComplete(ns))
            /\ get_model_info(ns, None) = ToString(NewestComplete(ns))


\* C22 (checked under Spec): a request whose training_data lacks a required
\* field fails with a DataValidationError, raised in preprocessing: no epoch
\* has run and no checkpoint has been written.
C22_MissingFieldIsDataValidationError ==
    [][ \A j \in JobIds :
          (jobs[j].pc = "preprocess" /\ jobs'[j].data = "empty") =>
              /\ jobs'[j].pc = "except"
              /\ jobs'[j].exc = "DataValidationError"
              /\ jobs'[j].epoch = 0
              /\ dirs' = dirs ]_vars


\* C23 (checked under SpecAPI): a status query for an id without a training
\* record is answered 404.
C23_UnknownOwnerIs404 ==
    (cache.reply.user_id # 0 /\ cache.reply.data = << >>) => cache.reply.code = 404

\* C30 (checked under SpecAPI): one call through the cache decorator runs
\* the wrapped function at most once, not at all on a hit, also when the
\* wrapped function raises.
C30_WrappedFunctionRunsAtMostOnce ==
    cache.reply.user_id # 0 =>
        /\ cache.reply.executions <= 1
        /\ cache.reply.hit => cache.reply.executions = 0


\* w1 + ... + wn
RECURSIVE Total(_)
Total(ws) == IF ws = << >> THEN 0 ELSE Head(ws) + Total(Tail(ws))

\* C29 (checked under SpecEnsemble): after add_model calls with positive
\* weights w1..wn the stored weight of member i is wi / (w1 + ... + wn).
C29_StoredWeightIsRequestedShare ==
    (/\ ensemble.weights # << >>
     /\ Len(ensemble.requested) = Len(ensemble.weights[1])
     /\ \A i \in 1..Len(ensemble.requested) : ensemble.requested[i] > 0) =>
        \A i \in 1..Len(ensemble.requested) :
            ensemble.weights[1][i] = Frac(ensemble.requested[i], Total(ensemble.requested))


(***************************************************************************)
(* Properties of the warmup schedule (checked under SpecLR)                *)
(***************************************************************************)

\* the inner strategy's rate at inner epoch e
InnerRateAt(e) ==
    InnerGetLr(sched.base_scheduler_type, sched.base_lr,
               sched.total_epochs - sched.warmup_epochs, e)

\* C25 as stated: during warmup the rate ramps linearly from 0 at epoch 0;
\* from warmup_epochs on it is the inner strategy's rate at epoch
\* e - warmup_epochs.
C25_RampFromZeroThenInnerRebased ==
    LET e == sched.last_epoch
    IN  IF e < sched.warmup_epochs
        THEN sched.lr = Rate(Frac(sched.base_lr * e, sched.warmup_epochs), << >>)
        ELSE sched.lr = InnerRateAt(e - sched.warmup_epochs)

\* C25, amended: during warmup the rate is base * (e + 1) / warmup_epochs,
\* which is base / warmup_epochs at epoch 0 and base at the last warmup
\* epoch; from warmup_epochs on it is the inner strategy's rate at epoch
\* e - warmup_epochs.
C25_RampFromFirstStepThenInnerRebased ==
    LET e == sched.last_epoch
    IN  /\ e < sched.warmup_epochs =>
              sched.lr = Rate(Frac(sched.base_lr * (e + 1), sched.warmup_epochs), << >>)
        /\ e = 0 => sched.lr = Rate(Frac(sched.base_lr, sched.warmup_epochs), << >>)
        /\ e = sched.warmup_epochs - 1 => sched.lr = Rate(Frac(sched.base_lr, 1), << >>)
        /\ e >= sched.warmup_epochs => sched.lr = InnerRateAt(e - sched.warmup_epochs)
        /\ e = sched.warmup_epochs => sched.lr = InnerRateAt(0)

\* the schedule is past its warmup, on an inner epoch after the first
C25_Witness ==
    /\ sched.warmup_epochs >= 2
    /\ sched.last_epoch > sched.warmup_epochs
    /\ sched.lr # InnerRateAt(sched.last_epoch)


\* C24 (checked under SpecCompress): TrainingManager.compress_model, given
\* a trained model and a config, succeeds for the types pruning,
\* distillation and quantization: it returns, and the path it returns
\* exists.
C24_CompressionSucceedsForEachType ==
    (/\ compression.via = "TrainingManager"
     /\ compression.type \in {"pruning", "distillation", "quantization"}
     /\ ~compression.fault) =>
        /\ ~compression.raised
        /\ \E ns \in Namespaces : compressed_files[ns].info # << >>


\* C26 (checked under SpecRace): while an invocation is in its epoch loop,
\* the status record of its id says 'training', also when another
\* invocation for the same id overlaps with it.
C26_RunningJobShowsTraining ==
    \A j \in JobIds :
        jobs[j].pc = "epoch" => training_status[jobs[j].owner].status = "training"


\* C27: 'stopped' is absorbing: once EarlyStopping.__call__ has returned
\* True, every later call on the same instance also returns True and the
\* early-stop flag stays set, whatever score follows.
C27_StoppedIsAbsorbing ==
    [][es_ret = "True" => es_ret' = "True" /\ es'.early_stop]_vars

=============================================================================
